---- MODULE Spec2Model ----
(***************************************************************************)
(* Model of a1-solution.ts: the synchronous utilities formatString,        *)
(* filterByRating, concatenateArrays, getMostExpensiveProduct, getDayType  *)
(* and the timer-driven promise of squareAsync.                            *)
(*                                                                         *)
(* Spec / FairSpec : the event loop running invocations of squareAsync     *)
(* FnSpec          : one call of a synchronous utility on a drawn input    *)
(***************************************************************************)
EXTENDS Integers, Sequences, FiniteSets, TLC

VARIABLES now, calls, microtasks, fn, arg, ret

vars == <<now, calls, microtasks, fn, arg, ret>>

asyncVars == <<now, calls, microtasks>>
fnVars == <<fn, arg, ret>>

(***************************************************************************)
(* Bounds of the model                                                     *)
(***************************************************************************)
MaxCalls == 2        \* invocations of squareAsync in one run
MaxTime == 1000      \* the caller stops launching invocations after this
TickStep == 500      \* granularity of the clock, in ms
MaxStrLen == 3       \* longest text given to formatString
MaxItems == 3        \* longest list given to filterByRating
MaxProducts == 3     \* longest list given to getMostExpensiveProduct
MaxArrays == 3       \* most arguments given to concatenateArrays
MaxArrLen == 2       \* longest argument of concatenateArrays

Inputs == {-3, -1, 0, 5}
Alphabet == {"a", "B", "sz", "1"}      \* "sz" stands for U+00DF
Flags == {"true", "false", "undefined"}
Titles == {"x", "y"}
Ratings == {3, 4, 5}
Names == {"A", "B", "C"}
Prices == {10, 20}
Elems == {1, 2}

RECURSIVE SeqsUpTo(_, _)
SeqsUpTo(S, k) ==
    IF k = 0 THEN {<<>>}
    ELSE LET shorter == SeqsUpTo(S, k - 1)
         IN  shorter \cup {Append(s, x) : s \in {t \in shorter : Len(t) = k - 1}, x \in S}

(***************************************************************************)
(* formatString                                                            *)
(***************************************************************************)
LowerOf(c) == IF c = "B" THEN <<"b">> ELSE <<c>>

UpperOf(c) ==
    CASE c = "a"  -> <<"A">>
      [] c = "sz" -> <<"S", "S">>
      [] OTHER    -> <<c>>

RECURSIVE toLowerCase(_)
toLowerCase(s) == IF s = <<>> THEN <<>> ELSE LowerOf(Head(s)) \o toLowerCase(Tail(s))

RECURSIVE toUpperCase(_)
toUpperCase(s) == IF s = <<>> THEN <<>> ELSE UpperOf(Head(s)) \o toUpperCase(Tail(s))

IsExplicitFalseMut(toUpper) == toUpper # "true"

IsExplicitFalse(toUpper) == toUpper = "false"

formatString(input, toUpper) ==
    IF IsExplicitFalse(toUpper) THEN toLowerCase(input) ELSE toUpperCase(input)

(***************************************************************************)
(* filterByRating                                                          *)
(***************************************************************************)
RatingThreshold == 4

KeepsMut(item) == item.rating > RatingThreshold

Keeps(item) == item.rating >= RatingThreshold

\* Array.prototype.filter: visit the elements in index order, append the kept
RECURSIVE FilterFrom(_, _, _)
FilterFrom(items, i, kept) ==
    IF i > Len(items) THEN kept
    ELSE FilterFrom(items, i + 1, IF Keeps(items[i]) THEN Append(kept, items[i]) ELSE kept)

filterByRating(items) == FilterFrom(items, 1, <<>>)

(***************************************************************************)
(* concatenateArrays                                                       *)
(***************************************************************************)
ConcatStepMut(result, array) == array \o result

ConcatStep(result, array) == result \o array

RECURSIVE ConcatFrom(_, _, _)
ConcatFrom(arrays, k, result) ==
    IF k > Len(arrays) THEN result
    ELSE ConcatFrom(arrays, k + 1, ConcatStep(result, arrays[k]))

concatenateArrays(arrays) == ConcatFrom(arrays, 1, <<>>)

(***************************************************************************)
(* getMostExpensiveProduct                                                 *)
(***************************************************************************)
Null == [kind |-> "null"]

ReplacesMaxMut(product, maxProduct) == product.price >= maxProduct.price

ReplacesMax(product, maxProduct) == product.price > maxProduct.price

RECURSIVE ScanFrom(_, _, _)
ScanFrom(products, i, maxProduct) ==
    IF i > Len(products) THEN maxProduct
    ELSE ScanFrom(products, i + 1,
                  IF ReplacesMax(products[i], maxProduct) THEN products[i] ELSE maxProduct)

getMostExpensiveProduct(products) ==
    IF Len(products) = 0 THEN Null ELSE ScanFrom(products, 1, products[1])

(***************************************************************************)
(* Day, getDayType                                                         *)
(***************************************************************************)
Monday == 0
Tuesday == 1
Wednesday == 2
Thursday == 3
Friday == 4
Saturday == 5
Sunday == 6

Day == {Monday, Tuesday, Wednesday, Thursday, Friday, Saturday, Sunday}

IsWeekendMut(day) == day = Sunday

IsWeekend(day) == day = Saturday \/ day = Sunday

getDayType(day) == IF IsWeekend(day) THEN "Weekend" ELSE "Weekday"

(***************************************************************************)
(* squareAsync: promises, the timer and the job queue                      *)
(***************************************************************************)
Delay == 1000

Pending == [state |-> "pending", result |-> [kind |-> "undefined"]]

NegativeErrorMut == [kind |-> "Error", message |-> "negative number not allowed"]

NegativeError == [kind |-> "Error", message |-> "Negative number not allowed"]

Number(v) == [kind |-> "number", num |-> v]

\* the resolving functions of a promise act only while it is pending
Settle(p, state, result) ==
    IF p.state = "pending" THEN [state |-> state, result |-> result] ELSE p

IsNegativeMut(n) == n <= 0

IsNegative(n) == n < 0

Square(n) == n * n

\* the variable n the timer callback of invocation i closes over
CapturedNMut(cs, i) == cs[Len(cs)].n

CapturedN(cs, i) == cs[i].n

\* body of the timer callback, applied to the promise it settles
Callback(p, n) ==
    IF IsNegative(n) THEN Settle(p, "rejected", NegativeError)
    ELSE Settle(p, "fulfilled", Number(Square(n)))

\* the executor passed to new Promise, run synchronously by the constructor
ExecutorMut(n, t) ==
    IF n < 0 THEN [inner |-> Settle(Pending, "rejected", NegativeError), timer |-> "none", due |-> t]
    ELSE [inner |-> Pending, timer |-> "armed", due |-> t + Delay]

Executor(n, t) == [inner |-> Pending, timer |-> "armed", due |-> t + Delay]

\* state of a timer after its callback ran: setTimeout is one-shot
AfterFireMut(timer) == timer

AfterFire(timer) == "fired"

ThenableJob(i) == [job |-> "thenable", id |-> i]
ReactionJob(i) == [job |-> "reaction", id |-> i]

NotCalled == [called |-> FALSE]
Returned(v) == [called |-> TRUE, value |-> v]

(***************************************************************************)
(* Event loop of squareAsync                                               *)
(***************************************************************************)
Init ==
    /\ now = 0
    /\ calls = <<>>
    /\ microtasks = <<>>
    /\ fn = "squareAsync"
    /\ arg = [none |-> TRUE]
    /\ ret = NotCalled

\* squareAsync(n): the executor arms the timer, the async function returns the
\* inner promise, and the promise handed to the caller adopts it in a job
Call(n) ==
    /\ Len(calls) < MaxCalls
    /\ now <= MaxTime
    /\ LET e == Executor(n, now)
           i == Len(calls) + 1
       IN  /\ calls' = Append(calls,
                  [n |-> n, calledAt |-> now, due |-> e.due, timer |-> e.timer,
                   fires |-> 0, inner |-> e.inner, outer |-> Pending,
                   subscribed |-> FALSE])
           /\ microtasks' = Append(microtasks, ThenableJob(i))
    /\ UNCHANGED <<now, fnVars>>

\* NewPromiseResolveThenableJob: inner.then(resolveOuter, rejectOuter)
RunThenableJob ==
    /\ microtasks # <<>>
    /\ Head(microtasks).job = "thenable"
    /\ LET i == Head(microtasks).id
       IN  IF calls[i].inner.state = "pending"
           THEN /\ calls' = [calls EXCEPT ![i].subscribed = TRUE]
                /\ microtasks' = Tail(microtasks)
           ELSE /\ calls' = calls
                /\ microtasks' = Append(Tail(microtasks), ReactionJob(i))
    /\ UNCHANGED <<now, fnVars>>

\* PromiseReactionJob: the outer promise takes the settlement of the inner one
RunReactionJob ==
    /\ microtasks # <<>>
    /\ Head(microtasks).job = "reaction"
    /\ LET i == Head(microtasks).id
       IN  calls' = [calls EXCEPT ![i].outer =
                        Settle(@, calls[i].inner.state, calls[i].inner.result)]
    /\ microtasks' = Tail(microtasks)
    /\ UNCHANGED <<now, fnVars>>

\* the timer of invocation i expires and its callback runs
TimerFire(i) ==
    /\ i \in DOMAIN calls
    /\ calls[i].timer = "armed"
    /\ now >= calls[i].due
    /\ microtasks = <<>>
    /\ LET c == calls[i]
           p == Callback(c.inner, CapturedN(calls, i))
       IN  /\ calls' = [calls EXCEPT ![i].inner = p,
                                     ![i].timer = AfterFire(c.timer),
                                     ![i].fires = c.fires + 1]
           /\ microtasks' = IF c.subscribed /\ c.inner.state = "pending"
                            THEN Append(microtasks, ReactionJob(i))
                            ELSE microtasks
    /\ UNCHANGED <<now, fnVars>>

Tick ==
    /\ \/ now < MaxTime
       \/ \E i \in DOMAIN calls : calls[i].timer = "armed" /\ calls[i].due > now
    /\ now' = now + TickStep
    /\ UNCHANGED <<calls, microtasks, fnVars>>

Next ==
    \/ \E n \in Inputs : Call(n)
    \/ RunThenableJob
    \/ RunReactionJob
    \/ \E i \in 1..MaxCalls : TimerFire(i)
    \/ Tick

Spec == Init /\ [][Next]_vars

FairSpec ==
    /\ Spec
    /\ WF_vars(Tick)
    /\ WF_vars(RunThenableJob)
    /\ WF_vars(RunReactionJob)
    /\ WF_vars(\E i \in 1..MaxCalls : TimerFire(i))

(***************************************************************************)
(* One call of a synchronous utility                                       *)
(***************************************************************************)
RatedItems == [title : Titles, rating : Ratings]
Products == [name : Names, price : Prices]
ElemArrays == SeqsUpTo(Elems, MaxArrLen)

FnInit ==
    /\ now = 0
    /\ calls = <<>>
    /\ microtasks = <<>>
    /\ ret = NotCalled
    /\ \/ /\ fn = "formatString"
          /\ arg \in [input : SeqsUpTo(Alphabet, MaxStrLen), toUpper : Flags]
       \/ /\ fn = "filterByRating"
          /\ arg \in [items : SeqsUpTo(RatedItems, MaxItems)]
       \/ /\ fn = "concatenateArrays"
          /\ arg \in [arrays : SeqsUpTo(ElemArrays, MaxArrays)]
       \/ /\ fn = "getMostExpensiveProduct"
          /\ arg \in [products : SeqsUpTo(Products, MaxProducts)]
       \/ /\ fn = "getDayType"
          /\ arg \in [day : Day]

CallFormatString ==
    /\ fn = "formatString"
    /\ ret' = Returned(formatString(arg.input, arg.toUpper))
    /\ UNCHANGED <<fn, arg, asyncVars>>

CallFilterByRating ==
    /\ fn = "filterByRating"
    /\ ret' = Returned(filterByRating(arg.items))
    /\ UNCHANGED <<fn, arg, asyncVars>>

CallConcatenateArrays ==
    /\ fn = "concatenateArrays"
    /\ ret' = Returned(concatenateArrays(arg.arrays))
    /\ UNCHANGED <<fn, arg, asyncVars>>

CallGetMostExpensiveProduct ==
    /\ fn = "getMostExpensiveProduct"
    /\ ret' = Returned(getMostExpensiveProduct(arg.products))
    /\ UNCHANGED <<fn, arg, asyncVars>>

CallGetDayType ==
    /\ fn = "getDayType"
    /\ ret' = Returned(getDayType(arg.day))
    /\ UNCHANGED <<fn, arg, asyncVars>>

FnNext ==
    \/ CallFormatString
    \/ CallFilterByRating
    \/ CallConcatenateArrays
    \/ CallGetMostExpensiveProduct
    \/ CallGetDayType

FnSpec == FnInit /\ [][FnNext]_vars

(***************************************************************************)
(* Properties of squareAsync                                               *)
(***************************************************************************)
Called(i) == i \in DOMAIN calls

Fulfilled(p, v) == p = [state |-> "fulfilled", result |-> [kind |-> "number", num |-> v]]

Settled(p) == p.state # "pending"

\* C1: under a fair event loop every invocation settles: squareAsync(n) with
\* n >= 0 is eventually fulfilled with n*n, and with n < 0 it is eventually
\* rejected and is never fulfilled.
C1_EventuallySettles ==
    \A i \in 1..MaxCalls :
        /\ (Called(i) /\ calls[i].n >= 0) ~>
               (Called(i) /\ Fulfilled(calls[i].outer, calls[i].n * calls[i].n))
        /\ (Called(i) /\ calls[i].n < 0) ~>
               (Called(i) /\ calls[i].outer.state = "rejected")
        /\ [](Called(i) /\ calls[i].n < 0 =>
                  calls[i].outer.state # "fulfilled" /\ calls[i].inner.state # "fulfilled")

C1_Witness ==
    \E i, j \in DOMAIN calls :
        /\ calls[i].n = 5 /\ Fulfilled(calls[i].outer, 25)
        /\ calls[j].n = -3 /\ calls[j].outer.state = "rejected"

\* C2: the timer callback of an invocation runs at most once and settles the
\* promise in exactly one way, and a promise that has left the pending state
\* keeps its state and its result in every later step.
C2_SettledOnce ==
    /\ [](\A i \in DOMAIN calls :
            /\ calls[i].fires <= 1
            /\ calls[i].fires = 1 <=> Settled(calls[i].inner)
            /\ Settled(calls[i].outer) => calls[i].outer = calls[i].inner)
    /\ [][\A i \in DOMAIN calls :
            /\ Settled(calls[i].inner) => calls'[i].inner = calls[i].inner
            /\ Settled(calls[i].outer) => calls'[i].outer = calls[i].outer
            /\ calls'[i].fires >= calls[i].fires]_vars

C2_Witness ==
    \E i, j \in DOMAIN calls :
        /\ i # j
        /\ calls[i].fires = 1 /\ calls[i].outer.state = "fulfilled"
        /\ calls[j].fires = 1 /\ calls[j].outer.state = "rejected"
        /\ now > calls[i].due /\ now >= calls[j].due

\* C3: squareAsync never reports a negative input synchronously: while the
\* timer of an invocation is armed both of its promises are pending, and a
\* promise is settled only by the timer callback, no earlier than Delay after
\* the call.
C3_NeverSynchronous ==
    \A i \in DOMAIN calls :
        /\ calls[i].timer \in {"armed", "fired"}
        /\ calls[i].timer = "armed" =>
               calls[i].inner = Pending /\ calls[i].outer = Pending
        /\ Settled(calls[i].inner) \/ Settled(calls[i].outer) =>
               /\ calls[i].timer = "fired"
               /\ now >= calls[i].calledAt + Delay

C3_Witness ==
    \E i, j \in DOMAIN calls :
        /\ calls[i].n < 0 /\ calls[i].outer.state = "rejected"
        /\ calls[j].n < 0 /\ calls[j].calledAt = now /\ calls[j].outer = Pending

\* C4 as stated: the rejection reason of a negative input is an error whose
\* message is "negative number not allowed".
C4_Original ==
    \A i \in DOMAIN calls :
        calls[i].outer.state = "rejected" =>
            /\ calls[i].outer.result.kind = "Error"
            /\ calls[i].outer.result.message = "negative number not allowed"

\* C4 amended: a settled invocation with a negative input is rejected with an
\* error whose message is "Negative number not allowed", the same for every
\* negative input, and the reason is not a number.
C4_FixedMessage ==
    \A i \in DOMAIN calls :
        /\ calls[i].n < 0 /\ Settled(calls[i].outer) => calls[i].outer.state = "rejected"
        /\ calls[i].outer.state = "rejected" =>
            /\ calls[i].n < 0
            /\ calls[i].outer.result.kind = "Error"
            /\ calls[i].outer.result.message = "Negative number not allowed"
            /\ DOMAIN calls[i].outer.result = {"kind", "message"}

C4_Witness ==
    \E i, j \in DOMAIN calls :
        /\ calls[i].n < 0 /\ calls[j].n < 0 /\ calls[i].n # calls[j].n
        /\ calls[i].outer.state = "rejected" /\ calls[j].outer.state = "rejected"
        /\ calls[i].outer.result = calls[j].outer.result

\* C5: invocations are independent: a settled promise carries the outcome of
\* its own input, and a step that changes one invocation changes no other.
C5_Independent ==
    /\ [](\A i \in DOMAIN calls :
            /\ Settled(calls[i].inner) =>
                   IF calls[i].n < 0 THEN calls[i].inner.state = "rejected"
                   ELSE Fulfilled(calls[i].inner, calls[i].n * calls[i].n)
            /\ Settled(calls[i].outer) =>
                   IF calls[i].n < 0 THEN calls[i].outer.state = "rejected"
                   ELSE Fulfilled(calls[i].outer, calls[i].n * calls[i].n))
    /\ [][\A i \in DOMAIN calls :
            /\ i \in DOMAIN calls'
            /\ calls'[i].n = calls[i].n
            /\ calls'[i] # calls[i] =>
                   \A j \in DOMAIN calls : j # i => calls'[j] = calls[j]]_vars

C5_Witness ==
    /\ Len(calls) >= 2
    /\ calls[1].n < 0 /\ calls[2].n > 0
    /\ calls[1].timer = "armed" /\ now >= calls[1].due /\ calls[1].outer = Pending
    /\ Fulfilled(calls[2].outer, calls[2].n * calls[2].n)

(***************************************************************************)
(* Properties of the synchronous utilities                                 *)
(***************************************************************************)
MaxPrice(products) ==
    CHOOSE m \in {products[i].price : i \in DOMAIN products} :
        \A i \in DOMAIN products : products[i].price <= m

FirstMaxIndex(products) ==
    CHOOSE i \in DOMAIN products :
        /\ products[i].price = MaxPrice(products)
        /\ \A j \in DOMAIN products : products[j].price = MaxPrice(products) => i <= j

\* C6: getMostExpensiveProduct returns null for the empty list, otherwise the
\* element at the lowest index among those of maximal price, and leaves the
\* list unchanged.
C6_FirstMax ==
    [][fn = "getMostExpensiveProduct" =>
          /\ arg' = arg
          /\ ret'.called
          /\ ret'.value = IF arg.products = <<>> THEN Null
                          ELSE arg.products[FirstMaxIndex(arg.products)]]_vars

C6_Witness ==
    /\ fn = "getMostExpensiveProduct"
    /\ arg.products = <<[name |-> "A", price |-> 10], [name |-> "B", price |-> 20],
                        [name |-> "C", price |-> 20]>>
    /\ ret = Returned([name |-> "B", price |-> 20])

KeptIndices(items) == {i \in DOMAIN items : items[i].rating >= 4}

IsFilterOf(out, items) ==
    /\ Len(out) = Cardinality(KeptIndices(items))
    /\ \A i \in KeptIndices(items) :
           out[Cardinality({j \in KeptIndices(items) : j <= i})] = items[i]

\* C7: filterByRating returns exactly the records with rating >= 4, in their
\* original order and with duplicates kept, and leaves the list unchanged.
C7_Filter ==
    [][fn = "filterByRating" =>
          /\ arg' = arg
          /\ ret'.called
          /\ IsFilterOf(ret'.value, arg.items)
          /\ (arg.items = <<>> => ret'.value = <<>>)]_vars

C7_Witness ==
    /\ fn = "filterByRating"
    /\ arg.items = <<[title |-> "x", rating |-> 4], [title |-> "y", rating |-> 3],
                     [title |-> "x", rating |-> 4]>>
    /\ ret = Returned(<<[title |-> "x", rating |-> 4], [title |-> "x", rating |-> 4]>>)

RECURSIVE TotalLen(_, _)
TotalLen(arrays, k) == IF k = 0 THEN 0 ELSE TotalLen(arrays, k - 1) + Len(arrays[k])

IsConcatOf(out, arrays) ==
    /\ Len(out) = TotalLen(arrays, Len(arrays))
    /\ \A k \in DOMAIN arrays : \A j \in DOMAIN arrays[k] :
           out[TotalLen(arrays, k - 1) + j] = arrays[k][j]

\* C8: concatenateArrays returns the elements of its arguments in argument
\* order, each argument in its own order, of total length the sum of the
\* lengths, the empty sequence for no arguments, and leaves them unchanged.
C8_Concat ==
    [][fn = "concatenateArrays" =>
          /\ arg' = arg
          /\ ret'.called
          /\ IsConcatOf(ret'.value, arg.arrays)
          /\ (arg.arrays = <<>> => ret'.value = <<>>)]_vars

C8_Witness ==
    /\ fn = "concatenateArrays"
    /\ arg.arrays = <<<<1, 2>>, <<>>, <<2>>>>
    /\ ret = Returned(<<1, 2, 2>>)

LowerLetters == {"a", "b", "sz"}
UpperLetters == {"A", "B", "S"}

\* C9: formatString(s, false) is the lowercase form of s; formatString(s, true)
\* and formatString(s) are the uppercase form of s.
C9_Format ==
    fn = "formatString" /\ ret.called =>
        /\ arg.toUpper = "false" =>
               /\ ret.value = toLowerCase(arg.input)
               /\ \A k \in DOMAIN ret.value : ret.value[k] \notin UpperLetters
        /\ arg.toUpper \in {"true", "undefined"} =>
               /\ ret.value = toUpperCase(arg.input)
               /\ \A k \in DOMAIN ret.value : ret.value[k] \notin LowerLetters

C9_Witness ==
    /\ fn = "formatString"
    /\ arg = [input |-> <<"a", "B", "sz">>, toUpper |-> "undefined"]
    /\ ret = Returned(<<"A", "B", "S", "S">>)

\* C10: getDayType answers "Weekend" for exactly Saturday and Sunday and
\* "Weekday" for exactly the five other days of the seven-value enumeration.
C10_DayType ==
    /\ Cardinality(Day) = 7
    /\ Day = 0..6
    /\ fn = "getDayType" /\ ret.called =>
        /\ arg.day \in Day
        /\ ret.value \in {"Weekend", "Weekday"}
        /\ ret.value = "Weekend" <=> arg.day \in {Saturday, Sunday}
        /\ ret.value = "Weekday" <=>
               arg.day \in {Monday, Tuesday, Wednesday, Thursday, Friday}

C10_Witness ==
    /\ fn = "getDayType"
    /\ arg.day = Saturday
    /\ ret = Returned("Weekend")

====
